---------------------------- MODULE Spec2Model ----------------------------
(***************************************************************************)
(* Model of the layout-component pairing pipeline of AutoPR:               *)
(*   src/pragent/backend/yolo.py                    (component cropper)    *)
(*   src/pragent/backend/figure_table_pipeline.py   (pairing, orchestrator)*)
(*                                                                         *)
(* A file in a page's crop tree is the record [cls, idx, score]: the file  *)
(* <cls>/<cls>_<idx>_score<score/100>.jpg.  A record whose idx is NoIndex  *)
(* stands for a file in directory <cls> whose name does not match the      *)
(* pattern of parse_filename.  os.listdir returns names in arbitrary       *)
(* order, so every listing is a nondeterministic permutation.  A Python    *)
(* dict is a sequence of [key, val] entries in insertion order.            *)
(***************************************************************************)
EXTENDS Integers, Sequences, FiniteSets, TLC

\* ------------------------------------------------------------------ bounds
MaxIdx == 2
MaxFiles == 3
MaxThreshold == 1
MaxDets == 2
NumConfs == 3
MaxClsId == 10
MaxPages == 2
MaxRuns == 2
MaxPipeDets == 2

\* ------------------------------------------------------- program constants
Inf == 1000000
NoIndex == -1
DefaultThreshold == 30

component_types ==
    <<"figure", "figure_caption", "table", "table_caption_above", "table_caption_below">>

pairing_plan ==
    << [item_type |-> "figure", cap_types |-> <<"figure_caption">>],
       [item_type |-> "table",  cap_types |-> <<"table_caption_above", "table_caption_below">>] >>

NoneFile == [cls |-> "None", idx |-> NoIndex, score |-> 0]

\* ----------------------------------------------------------------- helpers
Range(s) == {s[i] : i \in 1..Len(s)}

Abs(x) == IF x < 0 THEN -x ELSE x

Perms(S) ==
    {s \in [1..Cardinality(S) -> S] : \A i, j \in 1..Cardinality(S) : s[i] = s[j] => i = j}

\* the confidence renderings a crop's name can carry; two of them let two files
\* of one class carry the same index
Scores == {85, 90}

PairingClasses == Range(component_types)

ComponentFiles == [cls : PairingClasses, idx : 0..MaxIdx, score : Scores]

\* a name in a class directory that parse_filename does not match
ForeignFiles == [cls : {component_types[1]}, idx : {NoIndex}, score : {0}]

\* --------------------------------------------------------------- variables
VARIABLES
    page_files,       \* the files under the page's crop directory
    threshold,        \* the threshold argument of pair_items_on_page
    organized_files,  \* class -> dict index -> path
    paired_files,     \* paths consumed by a committed Pair
    used_captions,    \* class -> set of consumed caption indices
    out_files,        \* copies written: [dir, file]
    pairs,            \* committed Pairs in commit order
    pc,               \* "ready" before the call, "done" after it returned
    \* extract_and_save_layout_components, one call
    dets,             \* the detector's result: sequence of [cls_id, conf]
    written,          \* the crop files the call saved
    crop_pc,          \* "ready" before the call, "saved" after it returned
    \* run_figure_extraction and run_pairing_process, one document
    num_pages,        \* pages the rasterizer yields for the PDF
    cropped,          \* cropped_results/<stem>: page -> files
    fresh,            \* page -> files the current run saved
    paired_results,   \* paired_results/<stem>: [exists, pages, files]
    page_dirs,        \* the sorted page directories of run_pairing_process
    page_i,           \* position in the page loop
    run_pc,           \* position in run_figure_extraction
    ret,              \* how the last call of run_figure_extraction ended
    failed,           \* the step of the current run that failed, or "no"
    runs,             \* calls of run_figure_extraction so far
    paired_pages,     \* pages pair_items_on_page completed in this run
    pairing_started   \* run_pairing_process was called in this run

pairVars ==
    <<page_files, threshold, organized_files, paired_files, used_captions,
      out_files, pairs, pc>>

cropVars == <<dets, written, crop_pc>>

pipeVars ==
    <<num_pages, cropped, fresh, paired_results, page_dirs, page_i, run_pc, ret,
      failed, runs, paired_pages, pairing_started>>

vars == <<pairVars, cropVars, pipeVars>>

\* ----------------------------------------------------------- parse_filename
\* re.match(r'([a-zA-Z_]+)_(\d+)_score([\d.]+)\.jpg'): (class, index) of a
\* conforming name, (None, None) otherwise.
parse_filename(f) ==
    IF f.idx = NoIndex THEN <<"None", NoIndex>> ELSE <<f.cls, f.idx>>

\* ---------------------------------------------------------------- the dict
DictHas(d, k) == \E i \in 1..Len(d) : d[i].key = k

DictSet(d, k, v) ==
    IF DictHas(d, k)
    THEN [i \in 1..Len(d) |-> IF d[i].key = k THEN [key |-> k, val |-> v] ELSE d[i]]
    ELSE Append(d, [key |-> k, val |-> v])

\* lines 88-90: one class directory, names in the order listdir returned them
RECURSIVE OrganizeDir(_, _, _)
OrganizeDir(d, listing, i) ==
    IF i > Len(listing) THEN d
    ELSE LET index == parse_filename(listing[i])[2]
         IN  OrganizeDir(IF index # NoIndex THEN DictSet(d, index, listing[i]) ELSE d,
                         listing, i + 1)

FilesOfClass(files, c) == {f \in files : f.cls = c}

\* lines 85-90 for a choice of listings, one per class directory
OrganizeAll(listings) ==
    [c \in PairingClasses |-> OrganizeDir(<<>>, listings[c], 1)]

\* -------------------------------------------------------- best-match scan
InitBestMatch == [min_diff |-> Inf, cap_path |-> NoneFile, cap_index |-> -1, cap_type |-> ""]

\* ScanCapType without the used_captions test of line 99
RECURSIVE ScanCapType_IgnoreUsed(_, _, _, _, _, _)
ScanCapType_IgnoreUsed(best_match, org, used, item_index, cap_type, j) ==
    IF j > Len(org[cap_type]) THEN best_match
    ELSE LET cap_index == org[cap_type][j].key
             cap_path  == org[cap_type][j].val
             diff      == Abs(item_index - cap_index)
             next ==
                 IF diff < best_match.min_diff
                 THEN [min_diff |-> diff, cap_path |-> cap_path,
                       cap_index |-> cap_index, cap_type |-> cap_type]
                 ELSE best_match
         IN  ScanCapType_IgnoreUsed(next, org, used, item_index, cap_type, j + 1)

\* lines 98-102: the inner loop over one caption class
RECURSIVE ScanCapType(_, _, _, _, _, _)
ScanCapType(best_match, org, used, item_index, cap_type, j) ==
    IF j > Len(org[cap_type]) THEN best_match
    ELSE LET cap_index == org[cap_type][j].key
             cap_path  == org[cap_type][j].val
             diff      == Abs(item_index - cap_index)
             next ==
                 IF cap_index \in used[cap_type] THEN best_match
                 ELSE IF diff < best_match.min_diff
                      THEN [min_diff |-> diff, cap_path |-> cap_path,
                            cap_index |-> cap_index, cap_type |-> cap_type]
                      ELSE best_match
         IN  ScanCapType(next, org, used, item_index, cap_type, j + 1)

\* lines 96-102: the loop over the allowed caption classes
RECURSIVE ScanCapTypes(_, _, _, _, _, _)
ScanCapTypes(best_match, org, used, item_index, cap_types, k) ==
    IF k > Len(cap_types) THEN best_match
    ELSE ScanCapTypes(ScanCapType(best_match, org, used, item_index, cap_types[k], 1),
                      org, used, item_index, cap_types, k + 1)

BestMatch(org, used, item_index, cap_types) ==
    ScanCapTypes(InitBestMatch, org, used, item_index, cap_types, 1)

\* line 104 with '<' in place of '<='
Accepts_StrictThreshold(best_match, thr) ==
    best_match.cap_path # NoneFile /\ best_match.min_diff < thr

\* line 104 without the threshold test
Accepts_NoThreshold(best_match, thr) ==
    best_match.cap_path # NoneFile

\* line 104
Accepts(best_match, thr) ==
    best_match.cap_path # NoneFile /\ best_match.min_diff <= thr

PairedDir(item_type, item_index) ==
    [kind |-> "paired", type |-> item_type, index |-> item_index]

UnpairedDir(item_type, index) ==
    [kind |-> "unpaired", type |-> item_type, index |-> index]

\* lines 111-117: the copies of the unpaired collection
UnpairedCopies(org, paired) ==
    {[dir |-> UnpairedDir(parse_filename(e.val)[1], parse_filename(e.val)[2]), file |-> e.val] :
        e \in {x \in UNION {Range(org[c]) : c \in PairingClasses} :
                 x.val \notin paired /\ parse_filename(x.val)[1] # "None"}}

\* lines 96-109: the body of the item loop for one dict entry; st holds
\* paired_files, used_captions, the copies written and the committed Pairs
PairStep(st, org, item_type, cap_types, entry, thr) ==
    LET item_index == entry.key
        item_path  == entry.val
        best_match == BestMatch(org, st.used_captions, item_index, cap_types)
    IN  IF Accepts(best_match, thr)
        THEN [paired_files  |-> st.paired_files \cup {item_path, best_match.cap_path},
              used_captions |-> [st.used_captions EXCEPT
                                    ![best_match.cap_type] = @ \cup {best_match.cap_index}],
              out_files     |-> st.out_files \cup
                                  {[dir |-> PairedDir(item_type, item_index), file |-> item_path],
                                   [dir |-> PairedDir(item_type, item_index),
                                    file |-> best_match.cap_path]},
              pairs         |-> Append(st.pairs,
                                  [item_type |-> item_type, item |-> item_path,
                                   cap_type |-> best_match.cap_type,
                                   cap |-> best_match.cap_path])]
        ELSE st

InitPairState ==
    [paired_files |-> {}, used_captions |-> [c \in PairingClasses |-> {}],
     out_files |-> {}, pairs |-> <<>>]

\* line 95: the item loop of one item type
RECURSIVE PairItemsOfType(_, _, _, _, _)
PairItemsOfType(st, org, plan, i, thr) ==
    IF i > Len(org[plan.item_type]) THEN st
    ELSE PairItemsOfType(
             PairStep(st, org, plan.item_type, plan.cap_types, org[plan.item_type][i], thr),
             org, plan, i + 1, thr)

\* line 94: the loop over the item types
RECURSIVE PairAllTypes(_, _, _, _)
PairAllTypes(st, org, t, thr) ==
    IF t > Len(pairing_plan) THEN st
    ELSE PairAllTypes(PairItemsOfType(st, org, pairing_plan[t], 1, thr), org, t + 1, thr)

\* lines 76-117: a whole call, for given listings of the class directories
pair_items_on_page(listings, thr) ==
    LET org == OrganizeAll(listings)
        st  == PairAllTypes(InitPairState, org, 1, thr)
    IN  [organized_files |-> org,
         paired_files    |-> st.paired_files,
         used_captions   |-> st.used_captions,
         out_files       |-> st.out_files \cup UnpairedCopies(org, st.paired_files),
         pairs           |-> st.pairs]

\* every way os.listdir can order the five class directories of a page
Listings(files) ==
    {[c \in PairingClasses |->
         CASE c = component_types[1] -> l1
           [] c = component_types[2] -> l2
           [] c = component_types[3] -> l3
           [] c = component_types[4] -> l4
           [] OTHER -> l5] :
       l1 \in Perms(FilesOfClass(files, component_types[1])),
       l2 \in Perms(FilesOfClass(files, component_types[2])),
       l3 \in Perms(FilesOfClass(files, component_types[3])),
       l4 \in Perms(FilesOfClass(files, component_types[4])),
       l5 \in Perms(FilesOfClass(files, component_types[5]))}

\* ------------------------------------------------------ pair_items_on_page
PairInit ==
    /\ page_files = {}
    /\ threshold = DefaultThreshold
    /\ organized_files = [c \in PairingClasses |-> <<>>]
    /\ paired_files = {}
    /\ used_captions = [c \in PairingClasses |-> {}]
    /\ out_files = {}
    /\ pairs = <<>>
    /\ pc = "ready"

\* a file appears in one of the page's class directories before the pairing
\* pass reads them (a crop saved by the cropper in this or an earlier run, or
\* a foreign file)
PlaceFile ==
    /\ pc = "ready"
    /\ Cardinality(page_files) < MaxFiles
    /\ \E f \in (ComponentFiles \cup ForeignFiles) \ page_files :
          page_files' = page_files \cup {f}
    /\ UNCHANGED <<threshold, organized_files, paired_files, used_captions, out_files,
                   pairs, pc>>
    /\ UNCHANGED <<cropVars, pipeVars>>

\* lines 76-117: one call pair_items_on_page(page_dir, output_dir, thr)
PairItemsOnPage ==
    /\ pc = "ready"
    /\ \E thr \in 0..MaxThreshold, listings \in Listings(page_files) :
          \E st \in {pair_items_on_page(listings, thr)} :
              /\ threshold' = thr
              /\ organized_files' = st.organized_files
              /\ paired_files' = st.paired_files
              /\ used_captions' = st.used_captions
              /\ out_files' = st.out_files
              /\ pairs' = st.pairs
    /\ pc' = "done"
    /\ UNCHANGED page_files
    /\ UNCHANGED <<cropVars, pipeVars>>

\* ------------------------------------- extract_and_save_layout_components
CLASS_NAMES ==
    <<"title", "plain_text", "abandon", "figure", "figure_caption", "table",
      "table_caption_above", "table_caption_below", "formula", "formula_caption">>

\* line 42: CLASS_NAMES.get(cls_id, f"cls{cls_id}")
ClassName(cls_id) ==
    IF cls_id \in 0..(Len(CLASS_NAMES) - 1)
    THEN CLASS_NAMES[cls_id + 1]
    ELSE "cls" \o ToString(cls_id)

\* confidences in thousandths, none of them on a rounding boundary
Confs == {846 + 7 * k : k \in 0..(NumConfs - 1)}

\* line 49: f"{score:.2f}", the confidence rounded to hundredths
FormatScore(conf) == (conf + 5) \div 10

\* the file name of line 49 with the index counted from one
CropFile_OneBased(ds, i) ==
    [cls |-> ClassName(ds[i].cls_id), idx |-> i, score |-> FormatScore(ds[i].conf)]

\* lines 40-49: the file saved for the i-th detection; enumerate counts from 0
CropFile(ds, i) ==
    [cls |-> ClassName(ds[i].cls_id), idx |-> i - 1, score |-> FormatScore(ds[i].conf)]

\* lines 40-50: the loop over the detections
RECURSIVE SaveCrops(_, _, _)
SaveCrops(files, ds, i) ==
    IF i > Len(ds) THEN files
    ELSE SaveCrops(files \cup {CropFile(ds, i)}, ds, i + 1)

\* lines 19-51: the files one call saves under save_base_dir
extract_and_save_layout_components(ds) == SaveCrops({}, ds, 1)

Detections == [cls_id : 0..MaxClsId, conf : Confs]

SeqsUpTo(D, n) == UNION {[1..k -> D] : k \in 0..n}

CropIdle ==
    /\ dets = <<>>
    /\ written = {}
    /\ crop_pc = "ready"

\* lines 19-51: one call on a page image
ExtractAndSave ==
    /\ crop_pc = "ready"
    /\ \E ds \in SeqsUpTo(Detections, MaxDets) :
          /\ dets' = ds
          /\ written' = extract_and_save_layout_components(ds)
    /\ crop_pc' = "saved"
    /\ UNCHANGED <<pairVars, pipeVars>>

\* ------------------------------ run_figure_extraction, run_pairing_process
Pages == 1..MaxPages

\* the detector outputs the orchestrator is run on
PipeDetections == [cls_id : {3, 4}, conf : {846}]

\* line 70: sorted(...) of the page directories
RECURSIVE SortedDirs(_)
SortedDirs(S) ==
    IF S = {} THEN <<>>
    ELSE LET m == CHOOSE x \in S : \A y \in S : x <= y
         IN  <<m>> \o SortedDirs(S \ {m})

NoRun ==
    /\ cropped = [p \in Pages |-> {}]
    /\ fresh = [p \in Pages |-> {}]
    /\ paired_results = [exists |-> FALSE, pages |-> {}, files |-> {}]
    /\ page_dirs = <<>>
    /\ page_i = 1
    /\ run_pc = "idle"
    /\ ret = "pending"
    /\ failed = "no"
    /\ runs = 0
    /\ paired_pages = {}
    /\ pairing_started = FALSE

PipeIdle == num_pages = 1 /\ NoRun

PipeInit == num_pages \in Pages /\ NoRun

CanStart == run_pc \in {"idle", "returned"} /\ runs < MaxRuns

\* lines 26-40: a call starts and the PDF is rasterized into page images
Rasterize ==
    /\ CanStart
    /\ runs' = runs + 1
    /\ run_pc' = "detect"
    /\ page_i' = 1
    /\ ret' = "pending"
    /\ failed' = "no"
    /\ fresh' = [p \in Pages |-> {}]
    /\ paired_pages' = {}
    /\ pairing_started' = FALSE
    /\ UNCHANGED <<num_pages, cropped, paired_results, page_dirs>>
    /\ UNCHANGED <<pairVars, cropVars>>

\* lines 33-43: loading or converting the PDF raises; caught, None returned
RasterizeFails ==
    /\ CanStart
    /\ runs' = runs + 1
    /\ run_pc' = "returned"
    /\ ret' = "None"
    /\ failed' = "raster"
    /\ fresh' = [p \in Pages |-> {}]
    /\ paired_pages' = {}
    /\ pairing_started' = FALSE
    /\ UNCHANGED <<num_pages, cropped, paired_results, page_dirs, page_i>>
    /\ UNCHANGED <<pairVars, cropVars>>

\* lines 47-50: the next page image is analysed and its crops are saved
DetectPage ==
    /\ run_pc = "detect"
    /\ page_i <= num_pages
    /\ \E ds \in SeqsUpTo(PipeDetections, MaxPipeDets) :
          \E files \in {extract_and_save_layout_components(ds)} :
              /\ cropped' = [cropped EXCEPT ![page_i] = @ \cup files]
              /\ fresh' = [fresh EXCEPT ![page_i] = files]
    /\ page_i' = page_i + 1
    /\ UNCHANGED <<num_pages, paired_results, page_dirs, run_pc, ret, failed, runs,
                   paired_pages, pairing_started>>
    /\ UNCHANGED <<pairVars, cropVars>>

\* line 50: the call raises (model, image or detector failure); nothing in
\* run_figure_extraction catches it
DetectPageFails ==
    /\ run_pc = "detect"
    /\ page_i <= num_pages
    /\ run_pc' = "returned"
    /\ ret' = "raised"
    /\ failed' = "detect"
    /\ UNCHANGED <<num_pages, cropped, fresh, paired_results, page_dirs, page_i, runs,
                   paired_pages, pairing_started>>
    /\ UNCHANGED <<pairVars, cropVars>>

\* lines 53-55 and 63-70: run_pairing_process starts: the output directory
\* is removed and recreated and the page directories are listed and sorted
StartPairing ==
    /\ run_pc = "detect"
    /\ page_i > num_pages
    /\ pairing_started' = TRUE
    /\ paired_results' = [exists |-> TRUE, pages |-> {}, files |-> {}]
    /\ page_dirs' = SortedDirs({p \in Pages : cropped[p] # {}})
    /\ page_i' = 1
    /\ run_pc' = "pairing"
    /\ UNCHANGED <<num_pages, cropped, fresh, ret, failed, runs, paired_pages>>
    /\ UNCHANGED <<pairVars, cropVars>>

\* lines 71-74: the next page directory is paired with threshold=30
PairPage ==
    /\ run_pc = "pairing"
    /\ page_i <= Len(page_dirs)
    /\ \E listings \in Listings(cropped[page_dirs[page_i]]) :
          \E st \in {pair_items_on_page(listings, DefaultThreshold)} :
              paired_results' =
                  [exists |-> TRUE,
                   pages  |-> paired_results.pages \cup {page_dirs[page_i]},
                   files  |-> paired_results.files \cup
                                {[page |-> page_dirs[page_i], dir |-> o.dir, file |-> o.file] :
                                    o \in st.out_files}]
    /\ paired_pages' = paired_pages \cup {page_dirs[page_i]}
    /\ page_i' = page_i + 1
    /\ UNCHANGED <<num_pages, cropped, fresh, page_dirs, run_pc, ret, failed, runs,
                   pairing_started>>
    /\ UNCHANGED <<pairVars, cropVars>>

\* lines 72-74: the output page directory is made, then pair_items_on_page
\* raises (a listing or a copy fails); neither run_pairing_process nor
\* run_figure_extraction catches it
PairPageFails ==
    /\ run_pc = "pairing"
    /\ page_i <= Len(page_dirs)
    /\ paired_results' = [paired_results EXCEPT !.pages = @ \cup {page_dirs[page_i]}]
    /\ run_pc' = "returned"
    /\ ret' = "raised"
    /\ failed' = "pair"
    /\ UNCHANGED <<num_pages, cropped, fresh, page_dirs, page_i, runs, paired_pages,
                   pairing_started>>
    /\ UNCHANGED <<pairVars, cropVars>>

\* lines 57-59: the page loop is over and the call returns
ReturnResult ==
    /\ run_pc = "pairing"
    /\ page_i > Len(page_dirs)
    /\ ret' = IF paired_results.exists THEN "dir" ELSE "None"
    /\ run_pc' = "returned"
    /\ UNCHANGED <<num_pages, cropped, fresh, paired_results, page_dirs, page_i, failed,
                   runs, paired_pages, pairing_started>>
    /\ UNCHANGED <<pairVars, cropVars>>

\* ---------------------------------------------------------- specifications
\* pair_items_on_page on the files of one page
Init == PairInit /\ CropIdle /\ PipeIdle

Next ==
    \/ PlaceFile
    \/ PairItemsOnPage

Spec == Init /\ [][Next]_vars

\* extract_and_save_layout_components on one page image
InitCrop == PairInit /\ CropIdle /\ PipeIdle

NextCrop == ExtractAndSave

SpecCrop == InitCrop /\ [][NextCrop]_vars

\* run_figure_extraction, called up to MaxRuns times in one work directory
InitPipe == PairInit /\ CropIdle /\ PipeInit

NextPipe ==
    \/ Rasterize
    \/ RasterizeFails
    \/ DetectPage
    \/ DetectPageFails
    \/ StartPairing
    \/ PairPage
    \/ PairPageFails
    \/ ReturnResult

SpecPipe == InitPipe /\ [][NextPipe]_vars

TypeOK == pc \in {"ready", "done"} /\ crop_pc \in {"ready", "saved"}

\* ------------------------------------------------------------ properties
\* the component files of the five participating class directories
PageComponents == {f \in page_files : parse_filename(f)[2] # NoIndex}

OutputDirsOf(f) == {o.dir : o \in {x \in out_files : x.file = f}}

PlanOf(item_type) ==
    CHOOSE plan \in Range(pairing_plan) : plan.item_type = item_type

PairSet(ps) == {<<ps[k].item, ps[k].cap>> : k \in 1..Len(ps)}

\* used_captions as it was when the item of the k-th committed Pair was processed
UsedBefore(k) ==
    [c \in PairingClasses |->
        {pairs[j].cap.idx : j \in {i \in 1..(k - 1) : pairs[i].cap_type = c}}]

ItemsPairedBefore(k) == {pairs[j].item : j \in 1..(k - 1)}

ClassPos(cap_types, c) == CHOOSE n \in 1..Len(cap_types) : cap_types[n] = c

\* C1: after pair_items_on_page finishes, every component file of the five
\* class directories has been copied into exactly one output directory
C1_EveryComponentInExactlyOneDir ==
    pc = "done" => \A f \in PageComponents : Cardinality(OutputDirsOf(f)) = 1

\* C2: no caption is the caption of more than one committed Pair and no item
\* is the item of more than one committed Pair, in the Pairs and in the
\* paired_* directories written
C2_NoComponentInTwoPairs ==
    /\ \A i, j \in 1..Len(pairs) :
          i # j => pairs[i].cap # pairs[j].cap /\ pairs[i].item # pairs[j].item
    /\ \A o1, o2 \in out_files :
          (o1.dir.kind = "paired" /\ o2.dir.kind = "paired" /\ o1.file = o2.file)
              => o1.dir = o2.dir

\* an item stayed unpaired although a caption within its threshold exists,
\* because that caption was consumed by the Pair of another item
C2_Witness ==
    /\ pc = "done"
    /\ \E k \in 1..Len(pairs) :
          \E a \in Range(organized_files[pairs[k].item_type]) :
              /\ a.val \notin paired_files
              /\ Abs(a.key - pairs[k].cap.idx) <= threshold

\* C3: every committed Pair has abs(item index - caption index) <= threshold
C3_PairsWithinThreshold ==
    \A k \in 1..Len(pairs) :
        Abs(parse_filename(pairs[k].item)[2] - parse_filename(pairs[k].cap)[2]) <= threshold

\* a Pair was committed at a distance equal to a positive threshold, while a
\* caption of an allowed class farther than the threshold from the item was
\* left unconsumed
C3_Witness ==
    /\ pc = "done"
    /\ threshold >= 1
    /\ \E k \in 1..Len(pairs) :
          /\ Abs(pairs[k].item.idx - pairs[k].cap.idx) = threshold
          /\ \E ct \in Range(PlanOf(pairs[k].item_type).cap_types) :
                \E e \in Range(organized_files[ct]) :
                    /\ e.val \notin paired_files
                    /\ Abs(pairs[k].item.idx - e.key) > threshold

NoIndexCollision ==
    \A f, g \in PageComponents : (f.cls = g.cls /\ f.idx = g.idx) => f = g

\* C4: the set of Pairs of a run is the one every other order of the
\* directory listings produces on the same files with the same threshold
\* (stated for the pages on which no two files of a class share an index)
C4_SamePairsForEveryListing ==
    (pc = "done" /\ NoIndexCollision) =>
        \A listings \in Listings(page_files) :
            PairSet(pair_items_on_page(listings, threshold).pairs) = PairSet(pairs)

\* C9: the caption of a Pair is at minimal distance among the captions of the
\* allowed classes unconsumed when the item was processed and, among those at
\* that distance, the one of the earlier class and then of the smaller index
C9_NearestCaptionWithTieBreak ==
    \A k \in 1..Len(pairs) :
        LET p         == pairs[k]
            cap_types == PlanOf(p.item_type).cap_types
            dist      == Abs(p.item.idx - p.cap.idx)
        IN  \A ct \in Range(cap_types) :
                \A e \in Range(organized_files[ct]) :
                    e.key \notin UsedBefore(k)[ct] =>
                        /\ dist <= Abs(p.item.idx - e.key)
                        /\ dist = Abs(p.item.idx - e.key) =>
                              \/ ClassPos(cap_types, p.cap_type) < ClassPos(cap_types, ct)
                              \/ p.cap_type = ct /\ p.cap.idx <= e.key

\* C10: when a Pair is committed, no item of the same type with a lower index,
\* still unpaired at that moment, had the same caption as its nearest
\* unconsumed caption within the threshold
C10_LowerIndexItemWins ==
    \A k \in 1..Len(pairs) :
        LET p         == pairs[k]
            cap_types == PlanOf(p.item_type).cap_types
        IN  \A a \in Range(organized_files[p.item_type]) :
                (a.key < p.item.idx /\ a.val \notin ItemsPairedBefore(k)) =>
                    LET bm == BestMatch(organized_files, UsedBefore(k), a.key, cap_types)
                    IN  ~(Accepts(bm, threshold) /\ bm.cap_path = p.cap)

\* the rank of the i-th detection among the detections of its class
RankInClass(ds, i) == Cardinality({j \in 1..(i - 1) : ds[j].cls_id = ds[i].cls_id})

\* C5: when pairing one page fails, every other page directory of the
\* document has still been passed to pair_items_on_page when the run ends
C5_SiblingPagesStillPaired ==
    (run_pc = "returned" /\ failed = "pair") =>
        \A k \in 1..Len(page_dirs) : k # page_i => page_dirs[k] \in paired_pages

\* C6: a failure of rasterization or of detection/cropping ends the call by
\* returning None, not by raising, and no pairing was run
C6_FailureReturnsNone ==
    (run_pc = "returned" /\ failed \in {"raster", "detect"}) =>
        (ret = "None" /\ ~pairing_started)

\* C7: after a run that returned the result directory, every file in the
\* document's paired_results tree is a crop the most recent run saved
C7_NoStaleResults ==
    (run_pc = "returned" /\ ret = "dir") =>
        \A o \in paired_results.files : o.file \in fresh[o.page]

\* C8 as claimed: the crop of each detection is named with its rank among the
\* detections of its class, and there is exactly one file per detection
C8_IndexIsRankWithinClass ==
    crop_pc = "saved" =>
        /\ \A i \in 1..Len(dets) :
              [cls |-> ClassName(dets[i].cls_id), idx |-> RankInClass(dets, i),
               score |-> FormatScore(dets[i].conf)] \in written
        /\ Cardinality(written) = Len(dets)

\* C8 as amended: the crop of each detection is named with its rank among all
\* the detections of the page, and there is exactly one file per detection
C8_IndexIsRankOnPage ==
    crop_pc = "saved" =>
        /\ \A i \in 1..Len(dets) :
              [cls |-> ClassName(dets[i].cls_id), idx |-> i - 1,
               score |-> FormatScore(dets[i].conf)] \in written
        /\ Cardinality(written) = Len(dets)

\* crops were saved for a page on which a detection's rank within its class
\* differs from its rank on the page
C8_Witness ==
    /\ crop_pc = "saved"
    /\ \E i \in 1..Len(dets) : RankInClass(dets, i) # i - 1
    /\ Cardinality(written) = Len(dets)

=============================================================================
